---- MODULE Spec2Model ----
(***************************************************************************)
(* Model of contracts/cw-cyber-airdrop/src/helpers.rs: the coefficient     *)
(* update, the merkle proof verifier and the Ethereum signature verifier.  *)
(*                                                                         *)
(* Every action is one whole call of one function of helpers.rs.  `op` is  *)
(* the call and its arguments, `result` what the call returned (or the     *)
(* panic that aborted it), `calls` the external primitives the call        *)
(* invoked, in order.  CONFIG and MERKLE_ROOT are the two storage items.   *)
(***************************************************************************)
EXTENDS Integers, Sequences, FiniteSets, TLC

VARIABLES CONFIG, MERKLE_ROOT, config, op, result, calls

vars == <<CONFIG, MERKLE_ROOT, config, op, result, calls>>

(***************************************************************************)
(* Bounds.                                                                 *)
(***************************************************************************)
\* Uint128 is modelled with UintBits bits instead of 128.
UintBits == 17
\* Largest small value of a coefficient or a balance drawn by Init.
MaxSmall == 2
\* Largest small claim amount drawn by the actions.
MaxAmount == 3

MaxUint == 2 ^ UintBits - 1

(***************************************************************************)
(* Results.  A call returns Ok(value) or Err(error), or panics.            *)
(***************************************************************************)
Ok(v) == [tag |-> "Ok", val |-> v, err |-> "-", msg |-> "-"]

Err(kind, m) == [tag |-> "Err", val |-> "-", err |-> kind, msg |-> m]

Panic(m) == [tag |-> "Panic", val |-> "-", err |-> "-", msg |-> m]

NoResult == [tag |-> "-", val |-> "-", err |-> "-", msg |-> "-"]

NoOp == [name |-> "-"]

(***************************************************************************)
(* cosmwasm_std::Uint128 arithmetic: every operator is checked and panics  *)
(* on overflow, underflow or a zero divisor.  v = -1 stands for the panic. *)
(***************************************************************************)
Uint128_add(a, b) == IF a + b > MaxUint THEN -1 ELSE a + b

\* A subtraction that wraps around instead of panicking.
Uint128_sub_wrapping(a, b) == (a - b) % (MaxUint + 1)

Uint128_sub(a, b) == IF b > a THEN -1 ELSE a - b

Uint128_mul(a, b) == IF a * b > MaxUint THEN -1 ELSE a * b

Uint128_div(a, b) == IF b = 0 THEN -1 ELSE a \div b

(***************************************************************************)
(* update_coefficient.  The outcome is the result, the caller's Config as  *)
(* the call leaves it, and the Config written to storage (saved = FALSE    *)
(* when CONFIG.save is never reached).                                     *)
(***************************************************************************)
Outcome(r, c, s) == [result |-> r, config |-> c, saved |-> s]

\* helpers.rs:22-23, evaluated left to right as Rust does: the subtraction,
\* the multiplication, the division, the addition.
new_coefficient(c) ==
    LET d == Uint128_sub(c.coefficient_down, c.coefficient_up)
        m == IF d = -1 THEN -1 ELSE Uint128_mul(d, c.initial_balance)
        q == IF m = -1 THEN -1 ELSE Uint128_div(m, c.current_balance)
        s == IF q = -1 THEN -1 ELSE Uint128_add(c.coefficient_up, q)
    IN  [d |-> d, m |-> m, q |-> q, s |-> s]

\* The coefficient computed from the balance left after the subtraction.
update_coefficient_after(amount, c) ==
    LET b  == Uint128_sub(c.current_balance, amount)
        n  == new_coefficient([c EXCEPT !.current_balance = b])
    IN  IF b = -1 \/ n.s = -1 THEN Outcome(Panic("panicked"), c, FALSE)
        ELSE Outcome(Ok("()"), [c EXCEPT !.coefficient = n.s, !.current_balance = b], TRUE)

update_coefficient(amount, c) ==
    LET n  == new_coefficient(c)
        c1 == [c EXCEPT !.coefficient = n.s]
        b  == Uint128_sub(c.current_balance, amount)
        c2 == [c1 EXCEPT !.current_balance = b]
    IN  IF n.d = -1 THEN Outcome(Panic("attempt to subtract with overflow"), c, FALSE)
        ELSE IF n.m = -1 THEN Outcome(Panic("attempt to multiply with overflow"), c, FALSE)
        ELSE IF n.q = -1 THEN Outcome(Panic("attempt to divide by zero"), c, FALSE)
        ELSE IF n.s = -1 THEN Outcome(Panic("attempt to add with overflow"), c, FALSE)
        ELSE IF b = -1 THEN Outcome(Panic("attempt to subtract with overflow"), c1, FALSE)
        ELSE Outcome(Ok("()"), c2, TRUE)

(***************************************************************************)
(* The Configs a deployment starts from: coefficient_up, coefficient_down  *)
(* and the balances are unsigned, 0 <= current_balance <= initial_balance, *)
(* and the multiplier starts at coefficient_up.                            *)
(***************************************************************************)
Coefficients == 0..MaxSmall \cup {100, MaxUint - 1, MaxUint}

Balances == 0..MaxSmall

MkConfig(up, down, ini, cur) ==
    [coefficient_up |-> up, coefficient_down |-> down, coefficient |-> up,
     initial_balance |-> ini, current_balance |-> cur]

ExampleConfig == MkConfig(0, 100, 1000, 1000)

InitConfigs ==
    {ExampleConfig} \cup
    {MkConfig(up, down, b[1], b[2]) :
        up \in Coefficients, down \in Coefficients,
        b \in {x \in Balances \X Balances : x[2] <= x[1]}}

Amounts == 0..MaxAmount \cup {500, 1000}

\* The caller loads the stored Config, passes it as `config` and the call
\* saves it back; a panic aborts the invocation before CONFIG.save.
UpdateCoefficient ==
    \E amount \in Amounts :
        LET o == update_coefficient(amount, CONFIG)
        IN  /\ op' = [name |-> "update_coefficient", amount |-> amount, config |-> CONFIG]
            /\ result' = o.result
            /\ config' = o.config
            /\ CONFIG' = IF o.saved THEN o.config ELSE CONFIG
            /\ calls' = IF o.saved THEN <<"CONFIG.save">> ELSE <<>>
            /\ UNCHANGED MERKLE_ROOT

InitCoefficient ==
    /\ CONFIG \in InitConfigs
    /\ MERKLE_ROOT = <<>>
    /\ config = CONFIG
    /\ op = NoOp
    /\ result = NoResult
    /\ calls = <<>>

SpecCoefficient == InitCoefficient /\ [][UpdateCoefficient]_vars

(***************************************************************************)
(* Byte strings.  A String is the sequence of its bytes; a hex string is a *)
(* sequence of one-character strings.                                      *)
(***************************************************************************)
\* Length in bytes of a SHA-256 or Keccak-256 digest ([0; 32], [u8; 32]).
DigestLen == 32

RECURSIVE Decimal(_)
\* The bytes of format!("{}", n) for an unsigned n: its decimal digits.
Decimal(n) == IF n < 10 THEN <<48 + n>> ELSE Decimal(n \div 10) \o <<48 + (n % 10)>>

HexDigits == <<"0", "1", "2", "3", "4", "5", "6", "7",
               "8", "9", "a", "b", "c", "d", "e", "f">>

HexTable ==
    [c \in {"0", "1", "2", "3", "4", "5", "6", "7", "8", "9",
            "a", "b", "c", "d", "e", "f", "A", "B", "C", "D", "E", "F"} |->
        CASE c = "0" -> 0 [] c = "1" -> 1 [] c = "2" -> 2 [] c = "3" -> 3
          [] c = "4" -> 4 [] c = "5" -> 5 [] c = "6" -> 6 [] c = "7" -> 7
          [] c = "8" -> 8 [] c = "9" -> 9
          [] c \in {"a", "A"} -> 10 [] c \in {"b", "B"} -> 11
          [] c \in {"c", "C"} -> 12 [] c \in {"d", "D"} -> 13
          [] c \in {"e", "E"} -> 14 [] c \in {"f", "F"} -> 15]

\* hex::val: the value of one hex character, either case; -1 for
\* InvalidHexCharacter.
hex_val(c) == IF c \in DOMAIN HexTable THEN HexTable[c] ELSE -1

\* hex::decode_to_slice(data, out) with out of n bytes: the length checks come
\* first, then the characters left to right.
decode_to_slice(data, n) ==
    IF Len(data) % 2 # 0 THEN [err |-> "OddLength", bytes |-> <<>>]
    ELSE IF Len(data) \div 2 # n THEN [err |-> "InvalidStringLength", bytes |-> <<>>]
    ELSE IF \E i \in 1..Len(data) : hex_val(data[i]) = -1
         THEN [err |-> "InvalidHexCharacter", bytes |-> <<>>]
    ELSE [err |-> "-",
          bytes |-> [i \in 1..n |-> hex_val(data[2 * i - 1]) * 16 + hex_val(data[2 * i])]]

\* hex::encode, lower case.
hex_encode(bytes) ==
    [i \in 1..(2 * Len(bytes)) |->
        IF i % 2 = 1 THEN HexDigits[(bytes[(i + 1) \div 2] \div 16) + 1]
        ELSE HexDigits[(bytes[i \div 2] % 16) + 1]]

(***************************************************************************)
(* The hash functions are external (sha2, sha3).  They are modelled by a   *)
(* fixed digest of the input bytes, DigestLen bytes long: a sum of the     *)
(* bytes weighted by their positions, so that it depends on their order.   *)
(* Its bytes are ASCII, so that an address cut from a digest can also be   *)
(* the bytes of a String.                                                  *)
(***************************************************************************)
Weight(i) == ((i * i * 7 + i * 13 + 1) % 251) + 1

RECURSIVE Absorb(_, _, _)
\* The position-weighted sum of bytes[lo..hi].
Absorb(bytes, lo, hi) ==
    IF lo > hi THEN 0
    ELSE IF lo = hi THEN (bytes[lo] + 1) * Weight(lo)
    ELSE LET mid == (lo + hi) \div 2
         IN  Absorb(bytes, lo, mid) + Absorb(bytes, mid + 1, hi)

Digest(bytes, salt) ==
    LET h == (salt + Absorb(bytes, 1, Len(bytes))) % 65521
    IN  [i \in 1..DigestLen |->
            IF i = 1 THEN h % 128
            ELSE IF i = 2 THEN (h \div 128) % 128
            ELSE (h * i + (h \div 7) + i) % 128]

Sha256(bytes) == Digest(bytes, 17)

Keccak256(bytes) == Digest(bytes, 4099)

\* The order of [u8; 32] arrays: byte-lexicographic.
LexLess(a, b) ==
    \E i \in 1..Len(a) :
        /\ a[i] < b[i]
        /\ \A j \in 1..(i - 1) : a[j] = b[j]

(***************************************************************************)
(* verify_merkle_proof.  `deps` is the storage the call is given, a record *)
(* of the two items; an item is <<>> when nothing is stored and <<value>>  *)
(* otherwise.  The outcome carries the storage as the call leaves it.      *)
(***************************************************************************)
Deps == [CONFIG |-> CONFIG, MERKLE_ROOT |-> MERKLE_ROOT]

Verdict(r, c, d) == [result |-> r, calls |-> c, deps |-> d]

\* helpers.rs:38-42: the leaf, the hash of sender and amount with no separator.
leaf(sender, amount) == Sha256(sender \o Decimal(amount))

\* The pair hashed as given, without sorting it.
combine_unsorted(a, b) == Sha256(a \o b)

\* helpers.rs:47-49: sort the pair [hash, proof_buf], concatenate, hash.
combine(a, b) == IF LexLess(b, a) THEN Sha256(b \o a) ELSE Sha256(a \o b)

RECURSIVE try_fold(_, _, _)
\* helpers.rs:44-53: fold the proof from entry i on; stops at the first entry
\* that does not decode.  n counts the entries whose decoding was attempted.
try_fold(hash, proof, i) ==
    IF i > Len(proof) THEN [err |-> "-", hash |-> hash, n |-> i - 1]
    ELSE LET d == decode_to_slice(proof[i], DigestLen)
         IN  IF d.err # "-" THEN [err |-> d.err, hash |-> hash, n |-> i]
             ELSE try_fold(combine(hash, d.bytes), proof, i + 1)

Decodes(n) == [i \in 1..n |-> "hex::decode_to_slice(proof)"]

\* A verifier that reports a mismatch as Ok(false).
verify_merkle_proof_bool(deps, sender, amount, proof) ==
    IF deps.MERKLE_ROOT = <<>>
    THEN Verdict(Err("Std::NotFound", "-"), <<"MERKLE_ROOT.load">>, deps)
    ELSE
    LET f  == try_fold(leaf(sender, amount), proof, 1)
        r  == decode_to_slice(deps.MERKLE_ROOT[1], DigestLen)
        c1 == <<"MERKLE_ROOT.load">> \o Decodes(f.n)
        c2 == c1 \o <<"hex::decode_to_slice(root)">>
    IN  IF f.err # "-" THEN Verdict(Err("FromHexError", f.err), c1, deps)
        ELSE IF r.err # "-" THEN Verdict(Err("FromHexError", r.err), c2, deps)
        ELSE IF r.bytes # f.hash THEN Verdict(Ok("false"), c2, deps)
        ELSE Verdict(Ok("true"), c2, deps)

\* A verifier that decodes the stored root before it walks the proof.
verify_merkle_proof_root_first(deps, sender, amount, proof) ==
    IF deps.MERKLE_ROOT = <<>>
    THEN Verdict(Err("Std::NotFound", "-"), <<"MERKLE_ROOT.load">>, deps)
    ELSE
    LET f  == try_fold(leaf(sender, amount), proof, 1)
        r  == decode_to_slice(deps.MERKLE_ROOT[1], DigestLen)
        c1 == <<"MERKLE_ROOT.load", "hex::decode_to_slice(root)">>
        c2 == c1 \o Decodes(f.n)
    IN  IF r.err # "-" THEN Verdict(Err("FromHexError", r.err), c1, deps)
        ELSE IF f.err # "-" THEN Verdict(Err("FromHexError", f.err), c2, deps)
        ELSE IF r.bytes # f.hash
        THEN Verdict(Err("Std::VerificationErr", "GenericErr"), c2, deps)
        ELSE Verdict(Ok("true"), c2, deps)

\* A verifier that updates the coefficient before it checks the proof.
verify_merkle_proof_saving(deps, sender, amount, proof) ==
    LET f  == try_fold(leaf(sender, amount), proof, 1)
        u  == update_coefficient(amount, deps.CONFIG)
    IN  Verdict(IF f.err # "-" THEN Err("FromHexError", f.err) ELSE Ok("true"),
                <<"MERKLE_ROOT.load">> \o Decodes(f.n),
                [deps EXCEPT !.CONFIG = IF u.saved THEN u.config ELSE @])

verify_merkle_proof(deps, sender, amount, proof) ==
    IF deps.MERKLE_ROOT = <<>>
    THEN Verdict(Err("Std::NotFound", "-"), <<"MERKLE_ROOT.load">>, deps)
    ELSE
    LET h0 == leaf(sender, amount)
        f  == try_fold(h0, proof, 1)
        r  == decode_to_slice(deps.MERKLE_ROOT[1], DigestLen)
        c1 == <<"MERKLE_ROOT.load">> \o Decodes(f.n)
        c2 == c1 \o <<"hex::decode_to_slice(root)">>
    IN  IF Len(h0) # DigestLen
        THEN Verdict(Err("WrongLength", "-"), <<"MERKLE_ROOT.load">>, deps)
        ELSE IF f.err # "-" THEN Verdict(Err("FromHexError", f.err), c1, deps)
        ELSE IF r.err # "-" THEN Verdict(Err("FromHexError", r.err), c2, deps)
        ELSE IF r.bytes # f.hash
        THEN Verdict(Err("Std::VerificationErr", "GenericErr"), c2, deps)
        ELSE Verdict(Ok("true"), c2, deps)

(***************************************************************************)
(* Inputs of the merkle verifier.                                          *)
(***************************************************************************)
\* Longest proof drawn as an input.
MaxProofLen == 2

SenderAbc == <<97, 98, 99>>

Senders == {SenderAbc, <<97, 98>>}

ClaimAmounts == {100, 7}

SiblingA == Sha256(<<1>>)

SiblingB == Sha256(<<2>>)

EntryA == hex_encode(SiblingA)

EntryB == hex_encode(SiblingB)

\* An entry with a character that is no hex digit, one a byte short, one of
\* odd length.
EntryBadChar == [EntryA EXCEPT ![3] = "g"]

EntryShort == SubSeq(EntryA, 1, 2 * DigestLen - 2)

EntryOdd == SubSeq(EntryA, 1, 2 * DigestLen - 1)

ProofEntries == {EntryA, EntryB, EntryBadChar, EntryShort, EntryOdd}

Proofs == UNION {[1..n -> ProofEntries] : n \in 0..MaxProofLen}

LeafAbc100 == leaf(SenderAbc, 100)

StoredRoots ==
    {<<>>,
     <<hex_encode(LeafAbc100)>>,
     <<hex_encode(combine(LeafAbc100, SiblingA))>>,
     <<hex_encode(combine(combine(LeafAbc100, SiblingB), SiblingA))>>,
     <<EntryBadChar>>,
     <<EntryShort>>}

MerkleInputs ==
    {[name |-> "verify_merkle_proof", sender |-> s, amount |-> a, proof |-> p] :
        s \in Senders, a \in ClaimAmounts, p \in Proofs}

Digests ==
    {LeafAbc100, leaf(<<97, 98>>, 7), SiblingA, SiblingB,
     combine(LeafAbc100, SiblingA), combine(SiblingB, LeafAbc100)}

CombineInputs == {[name |-> "combine", a |-> a, b |-> b] : a \in Digests, b \in Digests}

\* A call of verify_merkle_proof with the arguments of `op`.
VerifyMerkleProof ==
    /\ op.name = "verify_merkle_proof"
    /\ LET o == verify_merkle_proof(Deps, op.sender, op.amount, op.proof)
       IN  /\ result' = o.result
           /\ calls' = o.calls
           /\ CONFIG' = o.deps.CONFIG
           /\ MERKLE_ROOT' = o.deps.MERKLE_ROOT
           /\ UNCHANGED <<config, op>>

\* One step of the fold on decoded values: the closure of helpers.rs:44-53
\* after decode_to_slice.
CombineStep ==
    /\ op.name = "combine"
    /\ result' = Ok(combine(op.a, op.b))
    /\ calls' = <<>>
    /\ UNCHANGED <<CONFIG, MERKLE_ROOT, config, op>>

(***************************************************************************)
(* verify_eth.  deps.api is the host's Api: `api` gives what its two       *)
(* secp256k1 primitives answer for well-formed arguments; for malformed    *)
(* arguments they fail as cosmwasm_std documents.                          *)
(***************************************************************************)
\* "\x19Ethereum Signed Message:\n"
EthPrefix ==
    <<25, 69, 116, 104, 101, 114, 101, 117, 109, 32, 83, 105, 103, 110, 101, 100,
      32, 77, 101, 115, 115, 97, 103, 101, 58, 10>>

\* serde_json::to_string(&claim_msg): {"gift_claiming_address":"<address>"}.
\* Serializing a struct of strings never fails.
to_string(claim_msg) ==
    <<123, 34, 103, 105, 102, 116, 95, 99, 108, 97, 105, 109, 105, 110, 103, 95,
      97, 100, 100, 114, 101, 115, 115, 34, 58, 34>>
    \o claim_msg.gift_claiming_address \o <<34, 125>>

\* A recovery id that also accepts the EIP-155 values of v.
get_recovery_param_eip155(v) ==
    IF v = 27 THEN 0 ELSE IF v = 28 THEN 1 ELSE IF v >= 35 THEN (v - 35) % 2 ELSE -1

\* helpers.rs:99-105; -1 is the generic_err.
get_recovery_param(v) == IF v = 27 THEN 0 ELSE IF v = 28 THEN 1 ELSE -1

\* helpers.rs:107-122.
ethereum_address_raw(pubkey) ==
    IF pubkey = <<>> THEN [err |-> "Public key must not be empty", addr |-> <<>>]
    ELSE IF Head(pubkey) # 4 THEN [err |-> "Public key must start with 0x04", addr |-> <<>>]
    ELSE IF Len(Tail(pubkey)) # 64
         THEN [err |-> "Public key must be 65 bytes long", addr |-> <<>>]
    ELSE [err |-> "-",
          addr |-> SubSeq(Keccak256(Tail(pubkey)), DigestLen - 20 + 1, DigestLen)]

\* Api::secp256k1_recover_pubkey: Err(kind) or Ok(pubkey).
secp256k1_recover_pubkey(api, hash, rs, recovery) ==
    IF Len(hash) # 32 THEN [err |-> "InvalidHashFormat", pubkey |-> <<>>]
    ELSE IF Len(rs) # 64 THEN [err |-> "InvalidSignatureFormat", pubkey |-> <<>>]
    ELSE IF recovery \notin {0, 1} THEN [err |-> "InvalidRecoveryParam", pubkey |-> <<>>]
    ELSE api.recover

\* Api::secp256k1_verify: Err(kind), Ok(true) or Ok(false).
secp256k1_verify(api, hash, rs, pubkey) ==
    IF Len(hash) # 32 THEN [err |-> "InvalidHashFormat", valid |-> "-"]
    ELSE IF Len(rs) # 64 THEN [err |-> "InvalidSignatureFormat", valid |-> "-"]
    ELSE IF Len(pubkey) \notin {33, 65} THEN [err |-> "InvalidPubkeyFormat", valid |-> "-"]
    ELSE api.verify

RecoverCall(recovery) ==
    IF recovery = 0 THEN "secp256k1_recover_pubkey(recovery_param = 0)"
    ELSE IF recovery = 1 THEN "secp256k1_recover_pubkey(recovery_param = 1)"
    ELSE "secp256k1_recover_pubkey(recovery_param = ?)"

VerifyCall == "secp256k1_verify"

verify_eth(deps, api, claim_msg, signature) ==
    LET msg  == to_string(claim_msg)
        hash == Keccak256(EthPrefix \o Decimal(Len(msg)) \o msg)
        v    == signature[Len(signature)]
        rs   == SubSeq(signature, 1, Len(signature) - 1)
        recovery == get_recovery_param(v)
        pk   == secp256k1_recover_pubkey(api, hash, rs, recovery)
        ad   == ethereum_address_raw(pk.pubkey)
        ok   == secp256k1_verify(api, hash, rs, pk.pubkey)
        c1   == <<RecoverCall(recovery)>>
        c2   == c1 \o <<VerifyCall>>
    IN  IF signature = <<>>
        THEN Verdict(Err("IsNotEligible", "Signature must not be empty"), <<>>, deps)
        ELSE IF recovery = -1
        THEN Verdict(Err("Std::GenericErr", "Values of v other than 27 and 28 not supported"),
                     <<>>, deps)
        ELSE IF pk.err # "-" THEN Verdict(Err("RecoverPubkeyError", pk.err), c1, deps)
        ELSE IF ad.err # "-" THEN Verdict(Err("Std::GenericErr", ad.err), c1, deps)
        ELSE IF claim_msg.gift_claiming_address # ad.addr
        THEN Verdict(Err("IsNotEligible", "signer address is not calculated addr"), c1, deps)
        ELSE IF ok.err # "-" THEN Verdict(Err("IsNotEligible", ok.err), c2, deps)
        ELSE Verdict(Ok(ok.valid), c2, deps)

\* helpers.rs:124-130.
verify_cosmos(deps, claim_msg, signature) == Verdict(Ok("true"), <<>>, deps)

(***************************************************************************)
(* Inputs of the signature verifiers.                                      *)
(***************************************************************************)
PubKey1 == <<4>> \o [i \in 1..64 |-> i]

PubKey2 == <<4>> \o [i \in 1..64 |-> 2 * i]

\* No key, a compressed key (tag 0x02), an uncompressed key a byte short.
PubKeyCompressed == <<2>> \o [i \in 1..32 |-> i]

PubKeyShort == <<4>> \o [i \in 1..63 |-> i]

Address1 == ethereum_address_raw(PubKey1).addr

\* The address as text: "0x" and 40 hex digits.
Address1Text == <<48, 120>> \o [i \in 1..40 |-> 48 + (i % 10)]

ClaimMsgs == {[gift_claiming_address |-> a] : a \in {Address1, Address1Text}}

SigRS == [i \in 1..64 |-> i]

\* r, s and v = 27, 28; v = 0, 1 (raw recovery ids); v = 37 (EIP-155, chain
\* id 1); a signature that is too short; no signature.
Signatures ==
    {SigRS \o <<27>>, SigRS \o <<28>>, SigRS \o <<0>>, SigRS \o <<1>>,
     SigRS \o <<37>>, <<7, 27>>, <<>>}

Apis ==
    [recover : {[err |-> "GenericErr", pubkey |-> <<>>]} \cup
               {[err |-> "-", pubkey |-> k] :
                    k \in {PubKey1, PubKey2, PubKeyCompressed, PubKeyShort, <<>>}},
     verify  : {[err |-> "GenericErr", valid |-> "-"],
                [err |-> "-", valid |-> "true"],
                [err |-> "-", valid |-> "false"]}]

EthInputs ==
    {[name |-> "verify_eth", api |-> a, claim_msg |-> m, signature |-> g] :
        a \in Apis, m \in ClaimMsgs, g \in Signatures}

CosmosInputs ==
    {[name |-> "verify_cosmos", claim_msg |-> m, signature |-> g] :
        m \in ClaimMsgs, g \in Signatures}

\* A call of verify_eth with the arguments of `op`.
VerifyEth ==
    /\ op.name = "verify_eth"
    /\ LET o == verify_eth(Deps, op.api, op.claim_msg, op.signature)
       IN  /\ result' = o.result
           /\ calls' = o.calls
           /\ CONFIG' = o.deps.CONFIG
           /\ MERKLE_ROOT' = o.deps.MERKLE_ROOT
           /\ UNCHANGED <<config, op>>

\* A call of verify_cosmos with the arguments of `op`.
VerifyCosmos ==
    /\ op.name = "verify_cosmos"
    /\ LET o == verify_cosmos(Deps, op.claim_msg, op.signature)
       IN  /\ result' = o.result
           /\ calls' = o.calls
           /\ CONFIG' = o.deps.CONFIG
           /\ MERKLE_ROOT' = o.deps.MERKLE_ROOT
           /\ UNCHANGED <<config, op>>

(***************************************************************************)
(* The verifiers are functions of their arguments and of the storage: the  *)
(* arguments and the storage are drawn by the initial state, and the call  *)
(* named by `op` is made any number of times.                              *)
(***************************************************************************)
VerifyConfigs == {ExampleConfig, MkConfig(0, 100, 1000, 0)}

InitVerify ==
    /\ CONFIG \in VerifyConfigs
    /\ MERKLE_ROOT \in StoredRoots
    /\ config = CONFIG
    /\ op \in MerkleInputs \cup CombineInputs \cup EthInputs \cup CosmosInputs
    /\ result = NoResult
    /\ calls = <<>>

NextVerify == VerifyMerkleProof \/ CombineStep \/ VerifyEth \/ VerifyCosmos

SpecVerify == InitVerify /\ [][NextVerify]_vars

(***************************************************************************)
(* Claims about update_coefficient, checked under SpecCoefficient.         *)
(***************************************************************************)
IsUpdate == op.name = "update_coefficient"

C2_ZeroBalanceReturnsArithmeticError ==
    (IsUpdate /\ op.config.current_balance = 0) =>
        /\ result.tag = "Err"
        /\ result.err = "ArithmeticError"
        /\ CONFIG = op.config
        /\ config = op.config

\* C3: a successful update persists, in one storage write, the coefficient
\* up + floor((down - up) * initial / current) computed with the balance as
\* it was before the subtraction, and current_balance - amount; up, down and
\* initial_balance are unchanged.  With up = 0, down = 100 and
\* initial = current = 1000, update(0) succeeds with coefficient 100, the
\* first time and every time it is repeated.
C3_CoefficientFormula ==
    /\ (IsUpdate /\ result.tag = "Ok") =>
            /\ op.config.current_balance > 0
            /\ op.config.coefficient_down >= op.config.coefficient_up
            /\ op.amount <= op.config.current_balance
            /\ calls = <<"CONFIG.save">>
            /\ CONFIG.coefficient =
                   op.config.coefficient_up +
                   (((op.config.coefficient_down - op.config.coefficient_up)
                       * op.config.initial_balance) \div op.config.current_balance)
            /\ CONFIG.current_balance = op.config.current_balance - op.amount
            /\ CONFIG.coefficient_up = op.config.coefficient_up
            /\ CONFIG.coefficient_down = op.config.coefficient_down
            /\ CONFIG.initial_balance = op.config.initial_balance
            /\ config = CONFIG
    /\ (/\ IsUpdate
        /\ op.amount = 0
        /\ op.config.coefficient_up = 0
        /\ op.config.coefficient_down = 100
        /\ op.config.initial_balance = 1000
        /\ op.config.current_balance = 1000) =>
            /\ result.tag = "Ok"
            /\ CONFIG.coefficient = 100
            /\ CONFIG.current_balance = 1000

\* The example update, repeated on the Config its first run persisted.
C3_Witness ==
    /\ IsUpdate
    /\ op.amount = 0
    /\ op.config = [ExampleConfig EXCEPT !.coefficient = 100]
    /\ result.tag = "Ok"
    /\ CONFIG = op.config

\* C4: after a successful update from a Config with
\* 0 < current_balance <= initial_balance the stored coefficient lies between
\* coefficient_up and coefficient_down, inclusive.
C4_CoefficientWithinBounds ==
    (/\ IsUpdate
     /\ result.tag = "Ok"
     /\ 0 < op.config.current_balance
     /\ op.config.current_balance <= op.config.initial_balance) =>
        /\ CONFIG.coefficient_up <= CONFIG.coefficient
        /\ CONFIG.coefficient <= CONFIG.coefficient_down

(***************************************************************************)
(* Claims about the verifiers, checked under SpecVerify.                   *)
(***************************************************************************)
Called == result # NoResult

IsMerkle == op.name = "verify_merkle_proof" /\ Called

IsEth == op.name = "verify_eth" /\ Called

HexChars ==
    {"0", "1", "2", "3", "4", "5", "6", "7", "8", "9",
     "a", "b", "c", "d", "e", "f", "A", "B", "C", "D", "E", "F"}

\* Valid hex of exactly DigestLen bytes.
WellFormed(h) == Len(h) = 2 * DigestLen /\ \A i \in 1..Len(h) : h[i] \in HexChars

ProofWellFormed == \A i \in 1..Len(op.proof) : WellFormed(op.proof[i])

RootStored == MERKLE_ROOT # <<>>

RECURSIVE FoldProof(_, _, _)
\* h_{i+1} = combine(h_i, decode_hex_32(proof[i])), left to right.
FoldProof(h, proof, i) ==
    IF i > Len(proof) THEN h
    ELSE FoldProof(combine(h, decode_to_slice(proof[i], DigestLen).bytes), proof, i + 1)

\* C5: with a well-formed proof and a well-formed stored root,
\* verify_merkle_proof returns Ok(true) if and only if folding the proof from
\* leaf(sender, amount) yields the decoded root, and the verification error
\* otherwise; with an empty proof it succeeds iff the root is the leaf; it
\* never returns Ok(false).
C5_MerkleVerifiesIffFoldIsRoot ==
    /\ IsMerkle => result # Ok("false")
    /\ (IsMerkle /\ RootStored /\ ProofWellFormed /\ WellFormed(MERKLE_ROOT[1])) =>
        LET root == decode_to_slice(MERKLE_ROOT[1], DigestLen).bytes
            h    == FoldProof(leaf(op.sender, op.amount), op.proof, 1)
        IN  /\ (h = root) => result = Ok("true")
            /\ (h # root) => result = Err("Std::VerificationErr", "GenericErr")
            /\ (op.proof = <<>>) =>
                   (result = Ok("true") <=> root = leaf(op.sender, op.amount))

\* A two-entry proof that verifies.
C5_Witness ==
    /\ IsMerkle
    /\ Len(op.proof) = 2
    /\ op.proof[1] # op.proof[2]
    /\ result = Ok("true")

\* The example: sender "abc", amount 100, no proof entries, root = the leaf.
C5_WitnessExample ==
    /\ IsMerkle
    /\ op.sender = SenderAbc /\ op.amount = 100 /\ op.proof = <<>>
    /\ result = Ok("true")

\* C6: a verifier leaves the stored Config and MerkleRoot unchanged, whether
\* it succeeds or fails, and a call repeated with the same arguments on the
\* same storage returns what the call before it returned.
C6_VerifiersLeaveStorage ==
    [][(op.name \in {"verify_merkle_proof", "verify_eth", "verify_cosmos"}) =>
          /\ CONFIG' = CONFIG
          /\ MERKLE_ROOT' = MERKLE_ROOT
          /\ Called => (result' = result /\ calls' = calls)]_vars

\* A failed proof of a claim that update_coefficient would have accepted.
C6_Witness ==
    /\ IsMerkle
    /\ result = Err("Std::VerificationErr", "GenericErr")
    /\ update_coefficient(op.amount, CONFIG).saved
    /\ CONFIG = ExampleConfig

\* C7: in verify_eth a non-empty signature whose last byte is not 27 or 28
\* fails before secp256k1_recover_pubkey or secp256k1_verify is invoked;
\* 27 maps to recovery id 0 and 28 to recovery id 1.
C7_RecoveryIdGate ==
    (IsEth /\ op.signature # <<>>) =>
        LET v == op.signature[Len(op.signature)]
        IN  /\ (v \notin {27, 28}) => (result.tag = "Err" /\ calls = <<>>)
            /\ (v = 27) =>
                  (calls # <<>> /\ calls[1] = "secp256k1_recover_pubkey(recovery_param = 0)")
            /\ (v = 28) =>
                  (calls # <<>> /\ calls[1] = "secp256k1_recover_pubkey(recovery_param = 1)")

\* An EIP-155 signature (v = 37), which the host would have recovered a key from.
C7_Witness ==
    /\ IsEth
    /\ op.signature = SigRS \o <<37>>
    /\ op.api.recover.err = "-"
    /\ result.tag = "Err"

\* C8: verify_eth succeeds only if the address derived from the recovered key
\* equals the bytes of gift_claiming_address and secp256k1_verify passes; an
\* address mismatch fails with IsNotEligible before the second check, and a
\* failure of the second check fails with IsNotEligible too.
C8_EthSucceedsOnlyIfBothChecksPass ==
    IsEth =>
        /\ (result.tag = "Ok") =>
              /\ op.api.recover.err = "-"
              /\ ethereum_address_raw(op.api.recover.pubkey).addr
                    = op.claim_msg.gift_claiming_address
              /\ op.api.verify = [err |-> "-", valid |-> "true"]
        /\ (/\ calls # <<>>
            /\ op.api.recover.err = "-"
            /\ ethereum_address_raw(op.api.recover.pubkey).err = "-"
            /\ ethereum_address_raw(op.api.recover.pubkey).addr
                  # op.claim_msg.gift_claiming_address) =>
              (result.err = "IsNotEligible" /\ Len(calls) = 1)
        /\ (Len(calls) = 2 /\ op.api.verify # [err |-> "-", valid |-> "true"]) =>
              (result.tag = "Err" /\ result.err = "IsNotEligible")

\* C9: the pairwise combination is symmetric, combine(a, b) = combine(b, a):
\* it hashes the smaller of the two, byte-lexicographically, then the larger.
C9_CombineSymmetric ==
    (op.name = "combine" /\ Called) =>
        LET lo == IF LexLess(op.b, op.a) THEN op.b ELSE op.a
            hi == IF LexLess(op.b, op.a) THEN op.a ELSE op.b
        IN  /\ result.val = combine(op.b, op.a)
            /\ result.val = Sha256(lo \o hi)

\* A pair given with the larger node first.
C9_Witness ==
    /\ op.name = "combine" /\ Called
    /\ LexLess(op.b, op.a)
    /\ result.val = Sha256(op.b \o op.a)
    /\ result.val # Sha256(op.a \o op.b)

FirstBad == CHOOSE i \in 1..Len(op.proof) :
                /\ ~WellFormed(op.proof[i])
                /\ \A j \in 1..(i - 1) : WellFormed(op.proof[j])

\* C10: a proof entry that is not valid hex of 32 bytes fails the call with
\* the decoding error of the first such entry, before the stored root is
\* decoded; a well-formed proof with a malformed stored root fails with the
\* decoding error; the verification-mismatch error, a different kind, is
\* returned only when proof and root are all well-formed.
C10_DecodingErrors ==
    (IsMerkle /\ RootStored) =>
        /\ ~ProofWellFormed =>
              /\ result = Err("FromHexError", decode_to_slice(op.proof[FirstBad], DigestLen).err)
              /\ calls = <<"MERKLE_ROOT.load">> \o Decodes(FirstBad)
        /\ (ProofWellFormed /\ ~WellFormed(MERKLE_ROOT[1])) =>
              /\ result.tag = "Err" /\ result.err = "FromHexError"
              /\ calls[Len(calls)] = "hex::decode_to_slice(root)"
        /\ (result.err = "Std::VerificationErr") =>
              (ProofWellFormed /\ WellFormed(MERKLE_ROOT[1]))
        /\ result.err = "FromHexError" =>
              (~ProofWellFormed \/ ~WellFormed(MERKLE_ROOT[1]))

\* Two malformed entries of different kinds and a malformed root: the error
\* is the first entry's.
C10_Witness ==
    /\ IsMerkle
    /\ op.proof = <<EntryOdd, EntryBadChar>>
    /\ MERKLE_ROOT = <<EntryShort>>
    /\ result = Err("FromHexError", "OddLength")

====
